---- MODULE Spec2Model ----
(***************************************************************************)
(* Model of the RLN admission gateway: scripts/rln_math.py (field          *)
(* arithmetic, share parsing) and scripts/mini_api_server.py (the          *)
(* nullifier ledger and the POST /submit handler).                         *)
(*                                                                         *)
(* JSON values are tagged records: [t |-> "int", v |-> n] for a JSON       *)
(* integer, [t |-> "str", s |-> <<chars>>] for a JSON string and           *)
(* [t |-> "null"] for null.  Python strings that the program formats or    *)
(* parses (felt literals, ledger keys) are sequences of one-character      *)
(* strings.                                                                *)
(***************************************************************************)
EXTENDS Integers, Sequences, FiniteSets, TLC

(* The field modulus.  The program uses 2^251 + 17*2^192 + 1; the model    *)
(* uses a small prime so that every residue can be enumerated.             *)
CAIRO_FIELD_PRIME == 23

(* Bound of the model: the number of requests the server receives. *)
MaxRequests == 3

(* The handler threads.  do_POST takes the ledger lock, so it is modelled  *)
(* for concurrent use; the sequential HTTPServer of run_server serves one  *)
(* request at a time, which is one of the interleavings.                   *)
Handlers == {"h1", "h2"}

JInt(n) == [t |-> "int", v |-> n]

JStr(s) == [t |-> "str", s |-> s]

JNull == [t |-> "null"]

HexChars == <<"0", "1", "2", "3", "4", "5", "6", "7", "8", "9", "a", "b", "c", "d", "e", "f">>

(* Value of a digit character in the given base, -1 when it is no digit. *)
DigitVal(c, base) ==
    IF \E i \in 1..base : HexChars[i] = c
    THEN (CHOOSE i \in 1..base : HexChars[i] = c) - 1
    ELSE -1

RECURSIVE ParseDigits(_, _)
(* Value of a non-empty digit string in the given base, -1 when invalid. *)
ParseDigits(s, base) ==
    IF Len(s) = 0 THEN -1
    ELSE LET d == DigitVal(s[Len(s)], base) IN
         IF d < 0 THEN -1
         ELSE IF Len(s) = 1 THEN d
         ELSE LET hi == ParseDigits(SubSeq(s, 1, Len(s) - 1), base) IN
              IF hi < 0 THEN -1 ELSE hi * base + d

(* int(s, 0) on an unsigned literal: 0x-prefixed hexadecimal, or decimal   *)
(* without a leading zero (base 0 rejects "07"; "0" and "00" are zero).    *)
ParseUnsigned(s) ==
    IF Len(s) >= 2 /\ s[1] = "0" /\ s[2] = "x"
    THEN ParseDigits(SubSeq(s, 3, Len(s)), 16)
    ELSE IF Len(s) >= 2 /\ s[1] = "0"
    THEN (IF \A i \in 1..Len(s) : s[i] = "0" THEN 0 ELSE -1)
    ELSE ParseDigits(s, 10)

(* int(str(value), 0) raises ValueError: the literal is not an integer. *)
IntLiteralRaises(s) ==
    IF Len(s) >= 1 /\ s[1] = "-"
    THEN ParseUnsigned(SubSeq(s, 2, Len(s))) < 0
    ELSE ParseUnsigned(s) < 0

IntLiteral(s) ==
    IF Len(s) >= 1 /\ s[1] = "-"
    THEN 0 - ParseUnsigned(SubSeq(s, 2, Len(s)))
    ELSE ParseUnsigned(s)

(* to_felt raises: a string that is no integer literal, or a value whose   *)
(* str() is none (null).                                                   *)
to_felt_raises(value) ==
    CASE value.t = "int" -> FALSE
      [] value.t = "str" -> IntLiteralRaises(value.s)
      [] OTHER -> TRUE

(* to_felt without the reduction modulo the field prime. *)
to_felt_unreduced(value) ==
    IF value.t = "int" THEN value.v ELSE IntLiteral(value.s)

to_felt(value) ==
    LET n == IF value.t = "int" THEN value.v ELSE IntLiteral(value.s)
    IN n % CAIRO_FIELD_PRIME

RECURSIVE HexDigits(_)
HexDigits(n) ==
    IF n < 16 THEN <<HexChars[n + 1]>>
    ELSE HexDigits(n \div 16) \o <<HexChars[(n % 16) + 1]>>

(* Python hex() of a non-negative integer. *)
hex(n) == <<"0", "x">> \o HexDigits(n)

to_felt_hex(value) == hex(to_felt(value))

RECURSIVE ModPow(_, _, _)
(* pow(b, e, m) *)
ModPow(b, e, m) ==
    IF e = 0 THEN 1 % m
    ELSE IF e % 2 = 1 THEN (b * ModPow(b, e - 1, m)) % m
    ELSE LET h == ModPow(b, e \div 2, m) IN (h * h) % m

(* A zero check on the value as it was passed, before normalisation. *)
field_inv_raises_unreduced(value) ==
    to_felt_raises(value) \/ to_felt_unreduced(value) = 0

field_inv_raises(value) == to_felt_raises(value) \/ to_felt(value) = 0

(* Inversion with the exponent P - 3 instead of P - 2. *)
field_inv_wrong_exponent(value) == ModPow(to_felt(value), CAIRO_FIELD_PRIME - 3, CAIRO_FIELD_PRIME)

field_inv(value) == ModPow(to_felt(value), CAIRO_FIELD_PRIME - 2, CAIRO_FIELD_PRIME)

recover_identity_secret_raises(x1, y1, x2, y2) ==
    \/ to_felt_raises(x1) \/ to_felt_raises(y1)
    \/ to_felt_raises(x2) \/ to_felt_raises(y2)
    \/ to_felt(x1) = to_felt(x2)
    \/ field_inv_raises(JInt(to_felt(x2) - to_felt(x1)))

(* Recovery that divides by x2 instead of x2 - x1. *)
recover_identity_secret_divides_by_x2(x1, y1, x2, y2) ==
    LET fx1 == to_felt(x1)
        fy1 == to_felt(y1)
        fx2 == to_felt(x2)
        fy2 == to_felt(y2)
        num == (fy1 * fx2 - fy2 * fx1) % CAIRO_FIELD_PRIME
        den == field_inv(JInt(fx2))
    IN (num * den) % CAIRO_FIELD_PRIME

(* Recovery with the numerator's terms swapped. *)
recover_identity_secret_swapped(x1, y1, x2, y2) ==
    LET fx1 == to_felt(x1)
        fy1 == to_felt(y1)
        fx2 == to_felt(x2)
        fy2 == to_felt(y2)
        num == (fy2 * fx1 - fy1 * fx2) % CAIRO_FIELD_PRIME
        den == ModPow((fx2 - fx1) % CAIRO_FIELD_PRIME, CAIRO_FIELD_PRIME - 2, CAIRO_FIELD_PRIME)
    IN (num * den) % CAIRO_FIELD_PRIME

recover_identity_secret(x1, y1, x2, y2) ==
    LET fx1 == to_felt(x1)
        fy1 == to_felt(y1)
        fx2 == to_felt(x2)
        fy2 == to_felt(y2)
        num == (fy1 * fx2 - fy2 * fx1) % CAIRO_FIELD_PRIME
        den == field_inv(JInt(fx2 - fx1))
    IN (num * den) % CAIRO_FIELD_PRIME

derive_a1_raises(a0, x, y) ==
    \/ to_felt_raises(x)
    \/ to_felt(x) = 0
    \/ to_felt_raises(a0) \/ to_felt_raises(y)
    \/ field_inv_raises(JInt(to_felt(x)))

derive_a1(a0, x, y) ==
    ((to_felt(y) - to_felt(a0)) * field_inv(JInt(to_felt(x)))) % CAIRO_FIELD_PRIME

(* Share: a frozen record of four field elements. *)
Share(n, t, x, y) == [nullifier |-> n, ticket_index |-> t, x |-> x, y |-> y]

RequiredKeys == {"nullifier", "ticket_index", "x", "y"}

(* Line 82: the required keys in the order the message lists them. *)
required == <<"nullifier", "ticket_index", "x", "y">>

(* A list of missing keys that stops at the first one. *)
missing_first(raw) ==
    LET all == SelectSeq(required, LAMBDA k : k \notin DOMAIN raw)
    IN IF all = <<>> THEN <<>> ELSE <<all[1]>>

(* Line 83: missing = [k for k in required if k not in raw] *)
missing(raw) == SelectSeq(required, LAMBDA k : k \notin DOMAIN raw)

(* str(value) of a JSON value that to_felt parses as a literal. *)
str(value) == IF value.t = "str" THEN value.s ELSE <<"N", "o", "n", "e">>

(* The exception parse_share raises: KeyError with the missing keys (lines *)
(* 83-85), else the ValueError of the first value, in the order of lines   *)
(* 88-91, that int() rejects, which quotes the literal.                    *)
parse_share_error(raw) ==
    IF missing(raw) # <<>>
    THEN [exception |-> "KeyError", missing |-> missing(raw)]
    ELSE LET bad == SelectSeq(required, LAMBDA k : to_felt_raises(raw[k]))
         IN [exception |-> "ValueError", literal |-> str(raw[bad[1]])]

(* parse_share raises: a required key is missing (KeyError) or a value is  *)
(* not integer-decodable (ValueError).                                     *)
parse_share_raises(raw) ==
    \/ \E k \in RequiredKeys : k \notin DOMAIN raw
    \/ \E k \in RequiredKeys : to_felt_raises(raw[k])

(* parse_share that stores x as it was sent. *)
parse_share_raw_x(raw) ==
    Share(to_felt(raw["nullifier"]), to_felt(raw["ticket_index"]),
          IF raw["x"].t = "int" THEN raw["x"].v ELSE IntLiteral(raw["x"].s),
          to_felt(raw["y"]))

parse_share(raw) ==
    Share(to_felt(raw["nullifier"]), to_felt(raw["ticket_index"]),
          to_felt(raw["x"]), to_felt(raw["y"]))

(* slash_payload raises when recovery raises. *)
slash_payload_raises(share1, share2) ==
    recover_identity_secret_raises(JInt(share1.x), JInt(share1.y),
                                   JInt(share2.x), JInt(share2.y))

slash_payload(share1, share2) ==
    LET identity_secret == recover_identity_secret(JInt(share1.x), JInt(share1.y),
                                                   JInt(share2.x), JInt(share2.y))
    IN [slash |-> TRUE,
        nullifier |-> to_felt_hex(JInt(share1.nullifier)),
        ticket_index |-> to_felt_hex(JInt(share1.ticket_index)),
        recovered_identity_secret |-> to_felt_hex(JInt(identity_secret)),
        shares |-> << [x |-> to_felt_hex(JInt(share1.x)), y |-> to_felt_hex(JInt(share1.y))],
                      [x |-> to_felt_hex(JInt(share2.x)), y |-> to_felt_hex(JInt(share2.y))] >>]


(***************************************************************************)
(* Requests the clients send.                                              *)
(***************************************************************************)
SharePayload(n, t, x, y) == [nullifier |-> n, ticket_index |-> t, x |-> x, y |-> y]

(* Files that exist on the server's disk (for proof_path). *)
ExistingProofFiles == {<<"p">>}

(* Base64 alphabet (the part the requests use) and base64.b64decode(s,     *)
(* validate=True) raising binascii.Error.                                  *)
B64Chars == {"e", "w", "o", "g", "I", "Q", "=", "0", "1"}

b64decode_raises(s) ==
    \/ Len(s) % 4 # 0
    \/ \E i \in 1..Len(s) : s[i] \notin B64Chars

ProofByPath == JStr(<<"p">>)

ProofByMissingPath == JStr(<<"q">>)

ProofB64 == JStr(<<"e", "w", "o", "g">>)

ProofBadB64 == JStr(<<"e", "!">>)

(* Shares of nullifier 1.  (2,13) and (5,22) lie on y = 7 + 3x; (2,22) is   *)
(* a second value at x = 2; the last one carries another ticket.           *)
SharesN1 ==
    { SharePayload(JInt(1), JInt(1), JInt(2), JInt(13)),
      SharePayload(JInt(1), JInt(1), JInt(5), JInt(22)),
      SharePayload(JInt(1), JInt(1), JInt(2), JInt(22)),
      SharePayload(JInt(1), JInt(2), JInt(2), JInt(13)) }

SharesN2 ==
    { SharePayload(JInt(2), JInt(1), JInt(5), JInt(13)) }

(* The share (1, 1, 2, 13) in other encodings: hex and decimal strings,    *)
(* an unreduced and a negative integer.                                    *)
SharesEncoded ==
    { SharePayload(JStr(<<"0", "x", "1", "8">>), JInt(1 - CAIRO_FIELD_PRIME),
                   JInt(2 + CAIRO_FIELD_PRIME), JStr(<<"1", "3">>)) }

MalformedPayloads ==
    { [nullifier |-> JInt(1), x |-> JInt(2)],
      SharePayload(JInt(1), JInt(1), JStr(<<"0", "2">>), JInt(13)),
      SharePayload(JInt(1), JNull, JInt(2), JInt(13)) }

Post(payload) == [path |-> "/submit", json_ok |-> TRUE, payload |-> payload]

Requests ==
    { Post(("proof_path" :> ProofByPath) @@ p) : p \in SharesN1 \cup SharesEncoded }
    \cup { Post(("proof_b64" :> ProofB64) @@ p) : p \in SharesN2 }
    \cup { Post(("proof_path" :> ProofByPath) @@ p) : p \in MalformedPayloads }
    \cup { Post(("proof_path" :> ProofByMissingPath) @@ SharePayload(JInt(1), JInt(1), JInt(2), JInt(13))),
           Post(("proof_b64" :> ProofBadB64) @@ SharePayload(JInt(1), JInt(1), JInt(2), JInt(13))),
           Post(SharePayload(JInt(1), JInt(1), JInt(2), JInt(13))),
           [path |-> "/submit", json_ok |-> FALSE, payload |-> <<>>],
           [path |-> "/other", json_ok |-> TRUE, payload |-> <<>>] }

(***************************************************************************)
(* State.                                                                  *)
(***************************************************************************)
VARIABLES
    spent,      \* ServerState.spent: ledger key -> <<ticket_index, x, y>>
    lock,       \* ServerState.lock: the handler holding it, or NoHolder
    pc,         \* position of each handler in do_POST
    req,        \* the request a handler is serving
    share,      \* local share (parse_share result)
    temp_path,  \* local temp_path: TRUE when a temporary proof file is recorded
    verified,   \* local verified: "none" before run_verify returned
    previous,   \* local previous: <<>> is None
    resp,       \* the response written by _json, NoResp when none was written
    files,      \* temporary proof files on disk, by creating handler
    nreq,       \* number of requests received so far
    touched,    \* history: the handler read or wrote the ledger in this request
    recovered,  \* history: the handler called recover_identity_secret in this request
    admitted,   \* history: the shares answered "accepted", in order
    failed,     \* history: the shares whose proof failed verification
    sent,       \* history: the number of responses the handler wrote in this request
    call,       \* the last call of a library function: its arguments and result
    get,        \* the thread serving a GET request: position, path, snapshot, response
    demo        \* v2_sequential_demo.main: position, arguments, locals, commands run, report

vars == <<spent, lock, pc, req, share, temp_path, verified, previous, resp, sent,
          files, nreq, touched, recovered, admitted, failed, call, get, demo>>

NoHolder == "none"

NoResp == [code |-> 0]

NoShare == Share(-1, -1, -1, -1)

NoReq == [path |-> "", json_ok |-> FALSE, payload |-> <<>>]

None == <<>>

NoCall == [fn |-> "none"]

NoGet == [pc |-> "idle", path |-> "", snapshot |-> <<>>, resp |-> NoResp]

NoDemo == [pc |-> "idle"]

(* The server after construction (line 36), no request received. *)
InitServer ==
    /\ spent = <<>>
    /\ lock = NoHolder
    /\ pc = [h \in Handlers |-> "idle"]
    /\ req = [h \in Handlers |-> NoReq]
    /\ share = [h \in Handlers |-> NoShare]
    /\ temp_path = [h \in Handlers |-> FALSE]
    /\ verified = [h \in Handlers |-> "none"]
    /\ previous = [h \in Handlers |-> None]
    /\ resp = [h \in Handlers |-> NoResp]
    /\ files = {}
    /\ nreq = 0
    /\ touched = [h \in Handlers |-> FALSE]
    /\ recovered = [h \in Handlers |-> FALSE]
    /\ admitted = <<>>
    /\ failed = {}
    /\ sent = [h \in Handlers |-> 0]
    /\ get = NoGet
    /\ demo = NoDemo

Init == InitServer /\ call = NoCall

(* A handler that dies without writing its response. *)
_json_not_written(h, status, payload) == UNCHANGED <<resp, sent>>

(* _json(status, payload): the handler writes one response. *)
_json(h, status, payload) ==
    /\ resp' = [resp EXCEPT ![h] = [code |-> status, body |-> payload]]
    /\ sent' = [sent EXCEPT ![h] = @ + 1]

(* spent.get(key) *)
Get(d, key) == IF key \in DOMAIN d THEN d[key] ELSE None

(* An insert that is lost. *)
PutLost(d, key, value) == d

(* spent[key] = value *)
Put(d, key, value) == [k \in DOMAIN d \cup {key} |-> IF k = key THEN value ELSE d[k]]

(* The ledger key of a handler's share (line 142). *)
Key(h) == to_felt_hex(JInt(share[h].nullifier))


(***************************************************************************)
(* do_POST, one action per step of the handler.                            *)
(***************************************************************************)

(* A handler thread is started for an incoming request. *)
Receive(h, r) ==
    /\ pc[h] = "idle"
    /\ nreq < MaxRequests
    /\ nreq' = nreq + 1
    /\ req' = [req EXCEPT ![h] = r]
    /\ pc' = [pc EXCEPT ![h] = "parse"]
    /\ UNCHANGED <<call, get, demo, spent, lock, share, temp_path, verified, previous, resp, sent,
                   files, touched, recovered, admitted, failed>>

(* payload.get(k): None when the key is absent. *)
PayloadGet(payload, k) == IF k \in DOMAIN payload THEN payload[k] ELSE JNull

(* Lines 90-111: path check, _parse_body, parse_share, proof presence. *)
Parse(h) ==
    /\ pc[h] = "parse"
    /\ LET r == req[h] IN
       IF r.path # "/submit"
       THEN /\ _json(h, 404, [error |-> "not found"])
            /\ pc' = [pc EXCEPT ![h] = "done"]
            /\ UNCHANGED share
       ELSE IF ~r.json_ok
       THEN /\ _json(h, 400, [error |-> "invalid json"])
            /\ pc' = [pc EXCEPT ![h] = "done"]
            /\ UNCHANGED share
       ELSE IF parse_share_raises(r.payload)
       THEN /\ _json(h, 400, [error |-> "invalid share",
                               detail |-> parse_share_error(r.payload)])
            /\ pc' = [pc EXCEPT ![h] = "done"]
            /\ UNCHANGED share
       ELSE /\ share' = [share EXCEPT ![h] = parse_share(r.payload)]
            /\ IF /\ PayloadGet(r.payload, "proof_path") = JNull
                  /\ PayloadGet(r.payload, "proof_b64") = JNull
               THEN /\ _json(h, 400, [error |-> "provide proof_path or proof_b64"])
                    /\ pc' = [pc EXCEPT ![h] = "done"]
               ELSE /\ pc' = [pc EXCEPT ![h] = "prepare"]
                    /\ UNCHANGED <<resp, sent>>
    /\ UNCHANGED <<call, get, demo, spent, lock, req, temp_path, verified, previous,
                   files, nreq, touched, recovered, admitted, failed>>

(* Lines 113-123: locate the proof file, or decode proof_b64 into a        *)
(* temporary file.  write_fails: the write inside safe_temp_file raises    *)
(* after mkstemp created the file, so temp_path is never assigned.         *)
Prepare(h, write_fails) ==
    /\ pc[h] = "prepare"
    /\ LET proof_path == PayloadGet(req[h].payload, "proof_path")
           proof_data == PayloadGet(req[h].payload, "proof_b64")
       IN
       IF proof_path # JNull
       THEN /\ ~write_fails
            /\ IF proof_path.s \notin ExistingProofFiles
               THEN /\ _json(h, 400, [error |-> "proof_path not found"])
                    /\ pc' = [pc EXCEPT ![h] = "done"]
               ELSE /\ pc' = [pc EXCEPT ![h] = "verify"]
                    /\ UNCHANGED <<resp, sent>>
            /\ UNCHANGED <<temp_path, files>>
       ELSE IF b64decode_raises(proof_data.s)
       THEN /\ ~write_fails
            /\ _json(h, 500, [error |-> "verification error"])
            /\ pc' = [pc EXCEPT ![h] = "done"]
            /\ UNCHANGED <<temp_path, files>>
       ELSE IF write_fails
       THEN /\ files' = files \cup {h}
            /\ _json(h, 500, [error |-> "verification error"])
            /\ pc' = [pc EXCEPT ![h] = "done"]
            /\ UNCHANGED temp_path
       ELSE /\ files' = files \cup {h}
            /\ temp_path' = [temp_path EXCEPT ![h] = TRUE]
            /\ pc' = [pc EXCEPT ![h] = "verify"]
            /\ UNCHANGED <<resp, sent>>
    /\ UNCHANGED <<call, get, demo, spent, lock, req, share, verified, previous,
                   nreq, touched, recovered, admitted, failed>>

(* The finally clause (lines 135-140): unlink the temporary file. *)
Unlink(h) == IF temp_path[h] THEN files \ {h} ELSE files

(* Lines 125 and 40: run_verify launches the verifier; launch_fails: the   *)
(* subprocess cannot be started and subprocess.run raises.                 *)
StartVerify(h, launch_fails) ==
    /\ pc[h] = "verify"
    /\ IF launch_fails
       THEN /\ _json(h, 500, [error |-> "verification error"])
            /\ files' = Unlink(h)
            /\ pc' = [pc EXCEPT ![h] = "done"]
            /\ verified' = [verified EXCEPT ![h] = "error"]
       ELSE /\ pc' = [pc EXCEPT ![h] = "verifying"]
            /\ UNCHANGED <<resp, sent, files, verified>>
    /\ UNCHANGED <<call, get, demo, spent, lock, req, share, temp_path, previous,
                   nreq, touched, recovered, admitted, failed>>

(* The handler without the return of line 131. *)
AfterVerifyNoReturn(ok) == "acquire"

(* Lines 126-131 and 142: a failed verification returns, a passed one     *)
(* goes on to the ledger step.                                             *)
AfterVerify(ok) == IF ok THEN "acquire" ELSE "done"

(* Lines 46-48 and 125-140: the verifier exits; ok is returncode == 0. *)
FinishVerify(h, ok) ==
    /\ pc[h] = "verifying"
    /\ files' = Unlink(h)
    /\ verified' = [verified EXCEPT ![h] = IF ok THEN "ok" ELSE "failed"]
    /\ IF ok
       THEN UNCHANGED <<resp, sent, failed>>
       ELSE /\ _json(h, 400, [error |-> "proof verify failed"])
            /\ failed' = failed \cup {share[h]}
    /\ pc' = [pc EXCEPT ![h] = AfterVerify(ok)]
    /\ UNCHANGED <<call, get, demo, spent, lock, req, share, temp_path, previous,
                   nreq, touched, recovered, admitted>>

(* A lock that never blocks. *)
LockFreeAlways(h) == TRUE

(* threading.Lock.acquire: blocks while another handler holds the lock. *)
LockFree(h) == lock = NoHolder

(* Line 143: with self.server_state.lock *)
Acquire(h) ==
    /\ pc[h] = "acquire"
    /\ LockFree(h)
    /\ lock' = h
    /\ pc' = [pc EXCEPT ![h] = "lookup"]
    /\ UNCHANGED <<call, get, demo, spent, req, share, temp_path, verified, previous, resp, sent,
                   files, nreq, touched, recovered, admitted, failed>>

(* Line 144: previous = spent.get(key) *)
Lookup(h) ==
    /\ pc[h] = "lookup"
    /\ previous' = [previous EXCEPT ![h] = Get(spent, Key(h))]
    /\ touched' = [touched EXCEPT ![h] = TRUE]
    /\ pc' = [pc EXCEPT ![h] = "adjudicate"]
    /\ UNCHANGED <<call, get, demo, spent, lock, req, share, temp_path, verified, resp, sent,
                   files, nreq, recovered, admitted, failed>>

(* Outcome without the ticket check of line 159. *)
OutcomeNoTicketCheck(sh, prev) ==
    IF prev = None THEN "accepted"
    ELSE IF prev[2] = sh.x
    THEN (IF prev[3] = sh.y THEN "replay_same_share" ELSE "inconsistent")
    ELSE "slashed"

(* Outcome that stores the share again when the ticket differs. *)
OutcomeOverwrite(sh, prev) ==
    IF prev = None THEN "accepted"
    ELSE IF prev[1] # sh.ticket_index THEN "accepted"
    ELSE IF prev[2] = sh.x
    THEN (IF prev[3] = sh.y THEN "replay_same_share" ELSE "inconsistent")
    ELSE "slashed"

(* Outcome that takes any share at the stored x for a replay. *)
OutcomeSameXIsReplay(sh, prev) ==
    IF prev = None THEN "accepted"
    ELSE IF prev[1] # sh.ticket_index THEN "ticket_mismatch"
    ELSE IF prev[2] = sh.x THEN "replay_same_share"
    ELSE "slashed"

(* Outcome that compares x and y before the ticket. *)
OutcomeTicketLast(sh, prev) ==
    IF prev = None THEN "accepted"
    ELSE IF prev[2] = sh.x
    THEN (IF prev[3] = sh.y THEN "replay_same_share" ELSE "inconsistent")
    ELSE IF prev[1] # sh.ticket_index THEN "ticket_mismatch"
    ELSE "slashed"

(* Outcome that compares the stored y with the submitted x. *)
OutcomeReplayComparesXY(sh, prev) ==
    IF prev = None THEN "accepted"
    ELSE IF prev[1] # sh.ticket_index THEN "ticket_mismatch"
    ELSE IF prev[2] = sh.x
    THEN (IF prev[3] = sh.x THEN "replay_same_share" ELSE "inconsistent")
    ELSE "slashed"

(* The outcome of lines 145-187 for a share and the looked-up entry. *)
Outcome(sh, prev) ==
    IF prev = None THEN "accepted"
    ELSE IF prev[1] # sh.ticket_index THEN "ticket_mismatch"
    ELSE IF prev[2] = sh.x
    THEN (IF prev[3] = sh.y THEN "replay_same_share" ELSE "inconsistent")
    ELSE "slashed"

(* Lines 179-184: the stored entry as a Share. *)
second_share(sh, prev) == Share(sh.nullifier, sh.ticket_index, prev[2], prev[3])

(* The arguments of slash_payload at line 185. *)
SlashArgs(sh, prev) == <<sh, second_share(sh, prev)>>

(* A ledger that drops the entry once it has served as slashing evidence. *)
SpentAfterOneShot(d, key, sh, out) ==
    IF out = "accepted" THEN Put(d, key, <<sh.ticket_index, sh.x, sh.y>>)
    ELSE IF out = "slashed" THEN [k \in DOMAIN d \ {key} |-> d[k]]
    ELSE d

(* The ledger after lines 145-187: only the accepted branch (line 146)     *)
(* assigns to spent.                                                       *)
SpentAfter(d, key, sh, out) ==
    IF out = "accepted" THEN Put(d, key, <<sh.ticket_index, sh.x, sh.y>>) ELSE d

(* Lines 145-187: insert or adjudicate, and write the response. *)
Adjudicate(h) ==
    /\ pc[h] = "adjudicate"
    /\ LET sh == share[h]
           key == Key(h)
           prev == previous[h]
           out == Outcome(sh, prev)
       IN
       /\ spent' = SpentAfter(spent, key, sh, out)
       /\ admitted' = IF out = "accepted" THEN Append(admitted, sh) ELSE admitted
       /\ recovered' = [recovered EXCEPT ![h] = (out = "slashed")]
       /\ CASE out = "accepted" ->
               _json(h, 200, [status |-> "accepted",
                              nullifier |-> key,
                              ticket_index |-> to_felt_hex(JInt(sh.ticket_index)),
                              x |-> to_felt_hex(JInt(sh.x))])
            [] out = "ticket_mismatch" ->
               _json(h, 409, [error |-> "nullifier replay with different ticket_index",
                              previous |-> [ticket_index |-> to_felt_hex(JInt(prev[1])),
                                            x |-> to_felt_hex(JInt(prev[2])),
                                            y |-> to_felt_hex(JInt(prev[3]))]])
            [] out = "replay_same_share" ->
               _json(h, 200, [status |-> "replay_same_share", nullifier |-> key])
            [] out = "inconsistent" ->
               _json(h, 409, [error |-> "same x, inconsistent y"])
            [] out = "slashed" ->
               LET args == SlashArgs(sh, prev) IN
               IF slash_payload_raises(args[1], args[2])
               THEN UNCHANGED <<resp, sent>>
               ELSE _json(h, 409, [status |-> "slashed"] @@ slash_payload(args[1], args[2]))
    /\ pc' = [pc EXCEPT ![h] = "release"]
    /\ UNCHANGED <<call, get, demo, lock, req, share, temp_path, verified, previous,
                   files, nreq, touched, failed>>

(* A with block that is left without releasing the lock. *)
ReleaseKeepsLock(h) ==
    /\ pc[h] = "release"
    /\ pc' = [pc EXCEPT ![h] = "done"]
    /\ UNCHANGED <<call, get, demo, lock, spent, req, share, temp_path, verified, previous, resp, sent,
                   files, nreq, touched, recovered, admitted, failed>>

(* Leaving the with block releases the lock. *)
Release(h) ==
    /\ pc[h] = "release"
    /\ lock' = IF lock = h THEN NoHolder ELSE lock
    /\ pc' = [pc EXCEPT ![h] = "done"]
    /\ UNCHANGED <<call, get, demo, spent, req, share, temp_path, verified, previous, resp, sent,
                   files, nreq, touched, recovered, admitted, failed>>

(* do_POST returns; the handler thread ends and its locals are dropped. *)
Return(h) ==
    /\ pc[h] = "done"
    /\ pc' = [pc EXCEPT ![h] = "idle"]
    /\ req' = [req EXCEPT ![h] = NoReq]
    /\ share' = [share EXCEPT ![h] = NoShare]
    /\ temp_path' = [temp_path EXCEPT ![h] = FALSE]
    /\ verified' = [verified EXCEPT ![h] = "none"]
    /\ previous' = [previous EXCEPT ![h] = None]
    /\ resp' = [resp EXCEPT ![h] = NoResp]
    /\ sent' = [sent EXCEPT ![h] = 0]
    /\ touched' = [touched EXCEPT ![h] = FALSE]
    /\ recovered' = [recovered EXCEPT ![h] = FALSE]
    /\ UNCHANGED <<call, get, demo, spent, lock, files, nreq, admitted, failed>>

Next ==
    \/ \E h \in Handlers, r \in Requests : Receive(h, r)
    \/ \E h \in Handlers : Parse(h)
    \/ \E h \in Handlers, write_fails \in BOOLEAN : Prepare(h, write_fails)
    \/ \E h \in Handlers, launch_fails \in BOOLEAN : StartVerify(h, launch_fails)
    \/ \E h \in Handlers, ok \in BOOLEAN : FinishVerify(h, ok)
    \/ \E h \in Handlers : Acquire(h)
    \/ \E h \in Handlers : Lookup(h)
    \/ \E h \in Handlers : Adjudicate(h)
    \/ \E h \in Handlers : Release(h)
    \/ \E h \in Handlers : Return(h)

Spec == Init /\ [][Next]_vars


(***************************************************************************)
(* Properties.                                                             *)
(***************************************************************************)

(* What a response says: its status, else its error, "none" when no        *)
(* response was written.                                                   *)
StatusOf(r) ==
    IF r.code = 0 THEN "none"
    ELSE IF "status" \in DOMAIN r.body THEN r.body.status
    ELSE r.body.error

(* The entry a share is stored as. *)
EntryOf(sh) == <<sh.ticket_index, sh.x, sh.y>>

(* The field element a canonical hex string denotes. *)
FromHex(s) == to_felt(JStr(s))

(* Handler h takes its adjudication step (lines 145-187) in this step. *)
AdjudicateStep(h) == pc[h] = "adjudicate" /\ pc'[h] = "release"

(* Handler h has finished its ledger step in this request. *)
LedgerStepDone(h) == touched[h] /\ pc[h] \in {"release", "done"}

(* The indices of the accepted shares of a nullifier. *)
AdmittedFor(n) == {i \in 1..Len(admitted) : admitted[i].nullifier = n}

(* C1: at most one ledger entry exists per nullifier; an entry is the      *)
(* (ticket_index, x, y) of the first share admitted for its nullifier, and *)
(* no step overwrites or deletes an entry once it is written.              *)
C1_LedgerIsFirstShare ==
    /\ \A k1, k2 \in DOMAIN spent : FromHex(k1) = FromHex(k2) => k1 = k2
    /\ \A i, j \in 1..Len(admitted) :
          admitted[i].nullifier = admitted[j].nullifier => i = j
    /\ DOMAIN spent = {hex(admitted[i].nullifier) : i \in 1..Len(admitted)}
    /\ \A i \in 1..Len(admitted) :
          spent[hex(admitted[i].nullifier)] = EntryOf(admitted[i])

C1_EntryImmutable ==
    /\ []C1_LedgerIsFirstShare
    /\ [][\A k \in DOMAIN spent : k \in DOMAIN spent' /\ spent'[k] = spent[k]]_vars

(* C1 witness: a later submission for a stored nullifier, with another     *)
(* ticket, was answered and the entry still is the first share.            *)
C1_Witness ==
    \E h \in Handlers :
        /\ pc[h] = "done"
        /\ touched[h]
        /\ previous[h] # None
        /\ previous[h][1] # share[h].ticket_index
        /\ spent[Key(h)] = previous[h]
        /\ \E i \in 1..Len(admitted) :
              admitted[i].nullifier = share[h].nullifier /\ EntryOf(admitted[i]) = previous[h]

(* C2: a verified submission that finds no entry for its nullifier inserts *)
(* (ticket_index, x, y) under the nullifier and is answered 200 "accepted" *)
(* echoing nullifier, ticket_index and x.                                  *)
C2_FirstShareAccepted ==
    [][\A h \in Handlers :
         /\ (pc[h] = "lookup" /\ pc'[h] = "adjudicate" /\ Key(h) \notin DOMAIN spent)
               => previous'[h] = None
         /\ (AdjudicateStep(h) /\ Key(h) \notin DOMAIN spent /\ previous[h] = None)
               => /\ verified[h] = "ok"
                  /\ DOMAIN spent' = DOMAIN spent \cup {Key(h)}
                  /\ FromHex(Key(h)) = share[h].nullifier
                  /\ spent'[Key(h)] = EntryOf(share[h])
                  /\ \A k \in DOMAIN spent : spent'[k] = spent[k]
                  /\ resp'[h].code = 200
                  /\ DOMAIN resp'[h].body = {"status", "nullifier", "ticket_index", "x"}
                  /\ resp'[h].body.status = "accepted"
                  /\ resp'[h].body.nullifier = Key(h)
                  /\ FromHex(resp'[h].body.ticket_index) = share[h].ticket_index
                  /\ FromHex(resp'[h].body.x) = share[h].x
      ]_vars

(* C2 witness: a handler was answered "accepted" and its share is stored. *)
C2_Witness ==
    \E h \in Handlers :
        /\ pc[h] = "done"
        /\ verified[h] = "ok"
        /\ previous[h] = None
        /\ StatusOf(resp[h]) = "accepted"
        /\ spent[Key(h)] = EntryOf(share[h])

(* The ledger holds an entry for the share's nullifier with the share's    *)
(* ticket_index and another x.                                             *)
OverSpend(d, sh) ==
    LET key == hex(sh.nullifier) IN
    /\ key \in DOMAIN d
    /\ d[key][1] = sh.ticket_index
    /\ d[key][2] # sh.x

(* A response carries slashing evidence. *)
HasEvidence(r) ==
    /\ r.code # 0
    /\ \/ "slash" \in DOMAIN r.body
       \/ "recovered_identity_secret" \in DOMAIN r.body
       \/ "shares" \in DOMAIN r.body

(* C3: a verified submission is answered "slashed", with evidence, exactly *)
(* when the ledger already holds an entry for its nullifier with the same  *)
(* ticket_index and a different x; no other response carries evidence.     *)
C3_SlashedIffOverSpend ==
    /\ [][\A h \in Handlers :
            AdjudicateStep(h) =>
               /\ (StatusOf(resp'[h]) = "slashed") <=> OverSpend(spent, share[h])
               /\ HasEvidence(resp'[h]) <=> OverSpend(spent, share[h])
         ]_vars
    /\ [](\A h \in Handlers :
            HasEvidence(resp[h]) =>
               /\ verified[h] = "ok"
               /\ StatusOf(resp[h]) = "slashed"
               /\ resp[h].code = 409
               /\ resp[h].body.slash = TRUE
               /\ OverSpend(spent, share[h]))

(* C3 witness: a slashed response next to the entry that caused it. *)
C3_Witness ==
    \E h \in Handlers :
        /\ pc[h] = "done"
        /\ StatusOf(resp[h]) = "slashed"
        /\ HasEvidence(resp[h])
        /\ OverSpend(spent, share[h])

(* The intercepts a0 of the lines y = a0 + a1*x through two points. *)
Intercepts(x1, y1, x2, y2) ==
    {a0 \in 0..(CAIRO_FIELD_PRIME - 1) :
        \E a1 \in 0..(CAIRO_FIELD_PRIME - 1) :
            /\ y1 = (a0 + a1 * x1) % CAIRO_FIELD_PRIME
            /\ y2 = (a0 + a1 * x2) % CAIRO_FIELD_PRIME}

(* C4: when a verified share meets the accepted share of its nullifier     *)
(* with the same ticket_index at another x, it is answered "slashed" and   *)
(* recovered_identity_secret is the intercept a0 of the line through both. *)
C4_SlashRecoversSecret ==
    \A h \in Handlers :
        (LedgerStepDone(h) /\ previous[h] # None
            /\ previous[h][1] = share[h].ticket_index
            /\ previous[h][2] # share[h].x)
        => /\ \E i \in AdmittedFor(share[h].nullifier) : EntryOf(admitted[i]) = previous[h]
           /\ StatusOf(resp[h]) = "slashed"
           /\ Intercepts(previous[h][2], previous[h][3], share[h].x, share[h].y)
                 = {FromHex(resp[h].body.recovered_identity_secret)}

(* C4 witness: (2,13) accepted, (5,22) slashed with secret 7, or the       *)
(* other way round.                                                        *)
C4_Witness ==
    \E h \in Handlers :
        /\ pc[h] = "done"
        /\ StatusOf(resp[h]) = "slashed"
        /\ {<<previous[h][2], previous[h][3]>>, <<share[h].x, share[h].y>>}
              = {<<2, 13>>, <<5, 22>>}
        /\ resp[h].body.recovered_identity_secret = <<"0", "x", "7">>

(* The ledger holds an entry for the share's nullifier with the share's    *)
(* ticket_index and x and another y.                                       *)
InconsistentWith(d, sh) ==
    LET key == hex(sh.nullifier) IN
    /\ key \in DOMAIN d
    /\ d[key][1] = sh.ticket_index
    /\ d[key][2] = sh.x
    /\ d[key][3] # sh.y

(* C5: a verified share that meets an entry with its ticket_index and x    *)
(* and another y is answered 409 "same x, inconsistent y", not as a replay *)
(* nor slashed, without a recovery and without a change of the ledger.     *)
C5_InconsistentShareRejected ==
    [][\A h \in Handlers :
         (AdjudicateStep(h) /\ InconsistentWith(spent, share[h]))
            => /\ resp'[h] = [code |-> 409, body |-> [error |-> "same x, inconsistent y"]]
               /\ ~HasEvidence(resp'[h])
               /\ ~recovered'[h]
               /\ spent' = spent
      ]_vars

(* C5 witness: an inconsistent share was rejected. *)
C5_Witness ==
    \E h \in Handlers :
        /\ pc[h] = "done"
        /\ verified[h] = "ok"
        /\ InconsistentWith(spent, share[h])
        /\ StatusOf(resp[h]) = "same x, inconsistent y"


(* The ledger holds an entry for the share's nullifier with another        *)
(* ticket_index.                                                           *)
TicketMismatch(d, sh) ==
    LET key == hex(sh.nullifier) IN
    /\ key \in DOMAIN d
    /\ d[key][1] # sh.ticket_index

(* C6: a verified share that meets an entry with another ticket_index is   *)
(* answered 409 "nullifier replay with different ticket_index" carrying    *)
(* the stored (ticket_index, x, y), whatever its x and y, and the ledger   *)
(* is unchanged.                                                           *)
C6_TicketMismatchFirst ==
    [][\A h \in Handlers :
         (AdjudicateStep(h) /\ TicketMismatch(spent, share[h]))
            => /\ resp'[h].code = 409
               /\ DOMAIN resp'[h].body = {"error", "previous"}
               /\ resp'[h].body.error = "nullifier replay with different ticket_index"
               /\ << FromHex(resp'[h].body.previous.ticket_index),
                     FromHex(resp'[h].body.previous.x),
                     FromHex(resp'[h].body.previous.y) >> = spent[Key(h)]
               /\ ~recovered'[h]
               /\ spent' = spent
      ]_vars

(* C6 witness: a share equal in x and y to the stored one, with another    *)
(* ticket, was answered with the ticket mismatch.                          *)
C6_Witness ==
    \E h \in Handlers :
        /\ pc[h] = "done"
        /\ verified[h] = "ok"
        /\ TicketMismatch(spent, share[h])
        /\ spent[Key(h)][2] = share[h].x
        /\ spent[Key(h)][3] = share[h].y
        /\ StatusOf(resp[h]) = "nullifier replay with different ticket_index"

(* C7: a verified share equal, after normalization, to the stored first    *)
(* share of its nullifier is answered 200 "replay_same_share" every time,  *)
(* and the ledger is unchanged.                                            *)
C7_ReplayIdempotent ==
    [][\A h \in Handlers :
         (AdjudicateStep(h) /\ Key(h) \in DOMAIN spent /\ spent[Key(h)] = EntryOf(share[h]))
            => /\ resp'[h] = [code |-> 200,
                              body |-> [status |-> "replay_same_share", nullifier |-> Key(h)]]
               /\ spent' = spent
               /\ admitted' = admitted
      ]_vars

(* C7 witness: the stored share was resubmitted twice, once in another     *)
(* encoding, and both were answered as replays.                            *)
C7_Witness ==
    \E h1, h2 \in Handlers :
        /\ h1 # h2
        /\ pc[h1] = "done" /\ pc[h2] = "done"
        /\ StatusOf(resp[h1]) = "replay_same_share"
        /\ StatusOf(resp[h2]) = "replay_same_share"
        /\ share[h1] = share[h2]
        /\ req[h1].payload # req[h2].payload
        /\ spent[Key(h1)] = EntryOf(share[h1])

(* C8: a handler reaches the ledger (lock, read, write) only after its     *)
(* verification passed; after a failed verification the request ends with  *)
(* 400 "proof verify failed" without a ledger step and without a recovery. *)
C8_VerifyBeforeLedger ==
    /\ [](\A h \in Handlers :
            /\ (touched[h] \/ lock = h \/ recovered[h]
                   \/ pc[h] \in {"acquire", "lookup", "adjudicate", "release"})
                  => verified[h] = "ok"
            /\ verified[h] = "failed"
                  => /\ pc[h] = "done"
                     /\ resp[h] = [code |-> 400, body |-> [error |-> "proof verify failed"]]
                     /\ ~touched[h]
                     /\ ~recovered[h])
    /\ [][/\ spent' # spent => \E h \in Handlers : verified[h] = "ok" /\ AdjudicateStep(h)
          /\ \A h \in Handlers :
                (verified[h] # "failed" /\ verified'[h] = "failed")
                   => spent' = spent /\ previous' = previous /\ lock' = lock
         ]_vars

(* C8 witness: a request ended with a failed verification while the ledger *)
(* holds an entry for its nullifier that it never looked at.               *)
C8_Witness ==
    \E h \in Handlers :
        /\ pc[h] = "done"
        /\ verified[h] = "failed"
        /\ StatusOf(resp[h]) = "proof verify failed"
        /\ Key(h) \in DOMAIN spent
        /\ previous[h] = None

(* C9: a share whose proof failed is not stored by that request; when it   *)
(* is submitted again with a passing proof and the ledger has no entry for *)
(* its nullifier, it is answered "accepted" and stored.                    *)
C9_FailedLeavesNoTrace ==
    /\ [](\A h \in Handlers :
            (LedgerStepDone(h) /\ share[h] \in failed /\ previous[h] = None)
               => /\ verified[h] = "ok"
                  /\ StatusOf(resp[h]) = "accepted"
                  /\ resp[h].code = 200
                  /\ spent[Key(h)] = EntryOf(share[h]))
    /\ [][\A h \in Handlers :
            (verified[h] # "failed" /\ verified'[h] = "failed")
               => /\ share[h] \in failed'
                  /\ spent' = spent
                  /\ admitted' = admitted
                  /\ pc'[h] = "done"
         ]_vars
    /\ [][admitted' # admitted =>
            \E h \in Handlers :
               /\ verified[h] = "ok"
               /\ AdjudicateStep(h)
               /\ admitted' = Append(admitted, share[h])
         ]_vars

(* C9 witness: a share that failed verification before is accepted. *)
C9_Witness ==
    \E h \in Handlers :
        /\ pc[h] = "done"
        /\ share[h] \in failed
        /\ verified[h] = "ok"
        /\ StatusOf(resp[h]) = "accepted"
        /\ Len(admitted) = 1

(* Handler h is inside the with block. *)
InCriticalSection(h) == pc[h] \in {"lookup", "adjudicate", "release"}

(* C10: the lookup and the insert or adjudication are one critical section *)
(* : of the verified submissions of a nullifier exactly one finds no entry *)
(* and is accepted, every other one is adjudicated against that entry.     *)
C10_AtomicCheckThenInsert ==
    /\ \A h1, h2 \in Handlers :
          (InCriticalSection(h1) /\ InCriticalSection(h2)) => h1 = h2
    /\ \A h \in Handlers : InCriticalSection(h) => lock = h
    /\ \A h \in Handlers :
          (pc[h] \in {"adjudicate", "release"} \/ LedgerStepDone(h)) =>
             /\ previous[h] = None =>
                   IF pc[h] = "adjudicate"
                   THEN AdmittedFor(share[h].nullifier) = {}
                   ELSE /\ Cardinality(AdmittedFor(share[h].nullifier)) = 1
                        /\ \A i \in AdmittedFor(share[h].nullifier) : admitted[i] = share[h]
                        /\ StatusOf(resp[h]) = "accepted"
             /\ previous[h] # None =>
                   /\ Cardinality(AdmittedFor(share[h].nullifier)) = 1
                   /\ \A i \in AdmittedFor(share[h].nullifier) :
                         EntryOf(admitted[i]) = previous[h]
                   /\ spent[Key(h)] = previous[h]
                   /\ pc[h] # "adjudicate" => StatusOf(resp[h]) # "accepted"

(* C10 witness: two verified submissions of one nullifier met at the lock; *)
(* the one that found no entry was accepted and the other, which waited,   *)
(* was adjudicated against its entry.                                      *)
C10_Witness ==
    \E h1, h2 \in Handlers :
        /\ h1 # h2
        /\ share[h1].nullifier = share[h2].nullifier
        /\ pc[h1] = "done" /\ previous[h1] = None /\ StatusOf(resp[h1]) = "accepted"
        /\ pc[h2] = "release" /\ previous[h2] = EntryOf(share[h1])
        /\ nreq = 2


(* C11: the verifier never runs for a request that holds the ledger lock:  *)
(* a handler holds the lock only inside the with block, which it enters    *)
(* after its verification returned success.                                *)
C11_VerifyOutsideLock ==
    \A h \in Handlers :
        /\ pc[h] \in {"prepare", "verify", "verifying"} => lock # h
        /\ lock = h => (verified[h] = "ok" /\ InCriticalSection(h))

(* C11 witness: one handler's verifier runs while another handler holds    *)
(* the lock.                                                               *)
C11_Witness ==
    \E h1, h2 \in Handlers :
        /\ pc[h1] = "verifying"
        /\ lock = h2
        /\ h1 # h2
        /\ verified[h2] = "ok"

(* C12: a handler that holds the ledger lock has written no response: the  *)
(* response is written to the client after the lock is released.           *)
C12_NoResponseUnderLock ==
    \A h \in Handlers : lock = h => sent[h] = 0


(***************************************************************************)
(* Specifications that call the library functions of rln_math.py and the   *)
(* adjudication of do_POST on enumerated arguments.  The server stays as   *)
(* constructed; call records the arguments and the result.                 *)
(***************************************************************************)
server_vars == <<get, demo, spent, lock, pc, req, share, temp_path, verified, previous, resp,
                 files, nreq, touched, recovered, admitted, failed, sent>>

FieldElements == 0..(CAIRO_FIELD_PRIME - 1)

(* recover_identity_secret on two points of the line y = a0 + a1*x. *)
RecoverLine(a0, a1, x1, x2) ==
    /\ LET y1 == (a0 + a1 * x1) % CAIRO_FIELD_PRIME
           y2 == (a0 + a1 * x2) % CAIRO_FIELD_PRIME
           raises == recover_identity_secret_raises(JInt(x1), JInt(y1), JInt(x2), JInt(y2))
       IN call' = [fn |-> "recover_line", a0 |-> a0, a1 |-> a1,
                   x1 |-> x1, y1 |-> y1, x2 |-> x2, y2 |-> y2,
                   raises |-> raises,
                   value |-> IF raises THEN -1
                             ELSE recover_identity_secret(JInt(x1), JInt(y1), JInt(x2), JInt(y2))]
    /\ UNCHANGED server_vars

NextRecover ==
    /\ call = NoCall
    /\ \E a0, a1, x1, x2 \in FieldElements : RecoverLine(a0, a1, x1, x2)

SpecRecover == Init /\ [][NextRecover]_vars

(* C13: for all field elements a0, a1 and x1 # x2,                         *)
(* recover_identity_secret(x1, a0 + a1*x1, x2, a0 + a1*x2) returns a0.     *)
C13_RecoverReturnsIntercept ==
    (call.fn = "recover_line" /\ call.x1 # call.x2)
       => (~call.raises /\ call.value = call.a0)

(* C13 witness: the line y = 7 + 3x at x = 0 and x = 5 gives 7. *)
C13_Witness ==
    /\ call.fn = "recover_line"
    /\ call.a0 = 7 /\ call.a1 = 3
    /\ call.x1 = 0 /\ call.x2 = 5
    /\ call.y1 = 7 /\ call.y2 = 22
    /\ call.value = 7

(* Lines 144-187 for a share that meets the entry of an accepted first     *)
(* share: the stored entry, the outcome and the recovered secret.          *)
SecondSubmission(first, second) ==
    LET key == to_felt_hex(JInt(second.nullifier))
        ledger == Put(<<>>, to_felt_hex(JInt(first.nullifier)), EntryOf(first))
        prev == Get(ledger, key)
        out == Outcome(second, prev)
        args == SlashArgs(second, prev)
    IN [stored |-> prev,
        outcome |-> out,
        secret |-> IF out = "slashed" /\ ~slash_payload_raises(args[1], args[2])
                   THEN slash_payload(args[1], args[2]).recovered_identity_secret
                   ELSE <<>>]

(* Two shares of one nullifier and ticket, submitted in both orders. *)
SubmitPair(x1, y1, x2, y2) ==
    /\ LET sa == Share(1, 1, x1, y1)
           sb == Share(1, 1, x2, y2)
       IN call' = [fn |-> "submit_pair", a |-> sa, b |-> sb,
                   a_then_b |-> SecondSubmission(sa, sb),
                   b_then_a |-> SecondSubmission(sb, sa)]
    /\ UNCHANGED server_vars

NextPair ==
    /\ call = NoCall
    /\ \E x1, y1, x2, y2 \in FieldElements : SubmitPair(x1, y1, x2, y2)

SpecPair == Init /\ [][NextPair]_vars

(* C14: of two shares with one nullifier and ticket_index and distinct x,  *)
(* the one submitted first is the stored entry and the other is slashed,   *)
(* and the recovered secret is the same for both arrival orders.           *)
C14_SlashOrderIndependent ==
    (call.fn = "submit_pair" /\ call.a.x # call.b.x)
       => /\ call.a_then_b.stored = EntryOf(call.a)
          /\ call.b_then_a.stored = EntryOf(call.b)
          /\ call.a_then_b.outcome = "slashed"
          /\ call.b_then_a.outcome = "slashed"
          /\ call.a_then_b.secret # <<>>
          /\ call.a_then_b.secret = call.b_then_a.secret

(* C14 witness: (2,13) then (5,22) and (5,22) then (2,13) both give 0x7. *)
C14_Witness ==
    /\ call.fn = "submit_pair"
    /\ <<call.a.x, call.a.y>> = <<2, 13>>
    /\ <<call.b.x, call.b.y>> = <<5, 22>>
    /\ call.a_then_b.secret = <<"0", "x", "7">>
    /\ call.b_then_a.secret = <<"0", "x", "7">>


(* The integers the felt functions are called on: below zero, inside the   *)
(* field, and at or above the prime.                                       *)
IntArgs == (0 - 2 * CAIRO_FIELD_PRIME)..(3 * CAIRO_FIELD_PRIME - 1)

RECURSIVE DecDigits(_)
DecDigits(n) ==
    IF n < 10 THEN <<HexChars[n + 1]>>
    ELSE DecDigits(n \div 10) \o <<HexChars[(n % 10) + 1]>>

(* The decimal literal of an integer, as a caller writes it in JSON. *)
DecLiteral(n) == IF n < 0 THEN <<"-">> \o DecDigits(0 - n) ELSE DecDigits(n)

(* The 0x-prefixed hexadecimal literal of an integer. *)
HexLiteral(n) == IF n < 0 THEN <<"-">> \o hex(0 - n) ELSE hex(n)

Encodings == {"int", "dec", "hex"}

Encode(n, enc) ==
    CASE enc = "int" -> JInt(n)
      [] enc = "dec" -> JStr(DecLiteral(n))
      [] enc = "hex" -> JStr(HexLiteral(n))

(* field_inv on an encoding of n, its result inverted again, and the       *)
(* product of n with its inverse.                                          *)
Invert(n, enc) ==
    /\ LET value == Encode(n, enc)
           raises == field_inv_raises(value)
           out == IF raises THEN -1 ELSE field_inv(value)
       IN call' = [fn |-> "field_inv", n |-> n, value |-> value,
                   raises |-> raises, out |-> out,
                   twice_raises |-> raises \/ field_inv_raises(JInt(out)),
                   twice |-> IF raises THEN -1 ELSE field_inv(JInt(out)),
                   product |-> (n * out) % CAIRO_FIELD_PRIME]
    /\ UNCHANGED server_vars

(* to_felt on the three encodings of n, and on its own result. *)
Normalize(n) ==
    /\ LET out == to_felt(JInt(n))
       IN call' = [fn |-> "to_felt", n |-> n,
                   raises |-> \E enc \in Encodings : to_felt_raises(Encode(n, enc)),
                   out |-> out,
                   again |-> to_felt(JInt(out)),
                   dec |-> to_felt(Encode(n, "dec")),
                   hex |-> to_felt(Encode(n, "hex"))]
    /\ UNCHANGED server_vars

NextFelt ==
    /\ call = NoCall
    /\ \/ \E n \in IntArgs, enc \in Encodings : Invert(n, enc)
       \/ \E n \in IntArgs : Normalize(n)

SpecFelt == Init /\ [][NextFelt]_vars

(* C15: for every a with a mod P # 0, field_inv(field_inv(a)) = a mod P    *)
(* and (a * field_inv(a)) mod P = 1.                                       *)
C15_InverseInvolution ==
    (call.fn = "field_inv" /\ call.n % CAIRO_FIELD_PRIME # 0)
       => /\ ~call.raises
          /\ ~call.twice_raises
          /\ call.twice = call.n % CAIRO_FIELD_PRIME
          /\ call.product = 1

(* C15 witness: a = -5 as a decimal string; its inverse 9 inverts back to  *)
(* 18 = -5 mod 23.                                                         *)
C15_Witness ==
    /\ call.fn = "field_inv"
    /\ call.n = -5
    /\ call.value = JStr(<<"-", "5">>)
    /\ call.out = 9
    /\ call.twice = 18
    /\ call.product = 1

(* C16: to_felt(to_felt(v)) = to_felt(v); the result lies in [0, P) also   *)
(* for negative integers and integers >= P; the decimal and the 0x-hex     *)
(* encoding of one integer give the same value.                            *)
C16_NormalizeIdempotent ==
    call.fn = "to_felt"
       => /\ ~call.raises
          /\ call.out \in 0..(CAIRO_FIELD_PRIME - 1)
          /\ call.again = call.out
          /\ call.dec = call.out
          /\ call.hex = call.out

(* C16 witness: -30 as integer, "-30" and "-0x1e" all normalise to 16. *)
C16_Witness ==
    /\ call.fn = "to_felt"
    /\ call.n = -30
    /\ call.out = 16
    /\ call.again = 16
    /\ call.dec = 16
    /\ call.hex = 16


(* The five adjudication responses of lines 145-187, by what they say. *)
AdjudicationOutcomes ==
    {"accepted", "replay_same_share", "nullifier replay with different ticket_index",
     "same x, inconsistent y", "slashed"}

(* The response of handler h is the adjudication outcome o. *)
Produced(h, o) ==
    /\ StatusOf(resp[h]) = o
    /\ resp[h].code = (IF o \in {"accepted", "replay_same_share"} THEN 200 ELSE 409)
    /\ ("status" \in DOMAIN resp[h].body) = (o \in {"accepted", "replay_same_share", "slashed"})

(* C17: every submission that reaches the ledger step produces exactly one *)
(* of accepted, replay_same_share, ticket mismatch, inconsistent share and *)
(* slashed, and every POST /submit sends exactly one response.             *)
C17_ExactlyOneOutcome ==
    \A h \in Handlers :
        /\ sent[h] <= 1
        /\ (pc[h] = "done" /\ req[h].path = "/submit") => sent[h] = 1
        /\ LedgerStepDone(h) =>
              /\ sent[h] = 1
              /\ Cardinality({o \in AdjudicationOutcomes : Produced(h, o)}) = 1

(* C17 witness: one handler returns with the single response slashed while *)
(* the other returns from a submission that never reached the ledger.      *)
C17_Witness ==
    \E h1, h2 \in Handlers :
        /\ pc[h1] = "done" /\ touched[h1] /\ sent[h1] = 1
        /\ Produced(h1, "slashed")
        /\ pc[h2] = "done" /\ ~touched[h2] /\ sent[h2] = 1
        /\ req[h2].path = "/submit"


(* The share violates the protocol against the ledger: its nullifier is    *)
(* stored with another ticket, or with its ticket and x and another y.     *)
ProtocolViolation(d, sh) == TicketMismatch(d, sh) \/ InconsistentWith(d, sh)

(* A response has the stored entry attached. *)
CarriesStoredEntry(r, entry) ==
    /\ "previous" \in DOMAIN r.body
    /\ << FromHex(r.body.previous.ticket_index),
          FromHex(r.body.previous.x),
          FromHex(r.body.previous.y) >> = entry

(* C18: a ticket mismatch and an inconsistent share at the same x are both *)
(* answered with a conflict that has the stored prior entry attached, the  *)
(* handler does not crash and the ledger is not mutated.                   *)
C18_ViolationsCarryStoredEntry ==
    [][\A h \in Handlers :
         (AdjudicateStep(h) /\ ProtocolViolation(spent, share[h]))
            => /\ resp'[h].code = 409
               /\ sent'[h] = 1
               /\ CarriesStoredEntry(resp'[h], spent[Key(h)])
               /\ spent' = spent
      ]_vars

(* C18, amended: both violations are answered with a 409 conflict, the     *)
(* handler does not crash and the ledger is not mutated; the ticket        *)
(* mismatch has the stored entry attached, the inconsistent share carries  *)
(* the error message alone.                                                *)
C18_ViolationsAreConflicts ==
    [][\A h \in Handlers :
         (AdjudicateStep(h) /\ ProtocolViolation(spent, share[h]))
            => /\ resp'[h].code = 409
               /\ sent'[h] = 1
               /\ "error" \in DOMAIN resp'[h].body
               /\ spent' = spent
               /\ TicketMismatch(spent, share[h])
                     => CarriesStoredEntry(resp'[h], spent[Key(h)])
               /\ InconsistentWith(spent, share[h])
                     => DOMAIN resp'[h].body = {"error"}
      ]_vars

(* C18 witness: one handler was answered the ticket mismatch with the      *)
(* stored entry, the other the inconsistent share without it, and the      *)
(* entry is still the stored one.                                          *)
C18_Witness ==
    \E h1, h2 \in Handlers :
        /\ pc[h1] = "done" /\ verified[h1] = "ok"
        /\ TicketMismatch(spent, share[h1])
        /\ resp[h1].code = 409
        /\ CarriesStoredEntry(resp[h1], spent[Key(h1)])
        /\ pc[h2] = "done" /\ verified[h2] = "ok"
        /\ InconsistentWith(spent, share[h2])
        /\ resp[h2].code = 409
        /\ DOMAIN resp[h2].body = {"error"}
        /\ spent[Key(h2)] = previous[h2]


(* A share as slash_payload renders it in the shares list. *)
RenderedPoint(x, y) == [x |-> hex(x), y |-> hex(y)]

(* C19: a slashed response lists the previously stored share first and the *)
(* newly submitted share second, under the nullifier and ticket_index      *)
(* common to both.                                                         *)
C19_StoredShareFirst ==
    \A h \in Handlers :
        (LedgerStepDone(h) /\ StatusOf(resp[h]) = "slashed")
           => /\ resp[h].body.shares[1] = RenderedPoint(previous[h][2], previous[h][3])
              /\ resp[h].body.shares[2] = RenderedPoint(share[h].x, share[h].y)
              /\ resp[h].body.nullifier = hex(share[h].nullifier)
              /\ resp[h].body.ticket_index = hex(share[h].ticket_index)
              /\ resp[h].body.ticket_index = hex(previous[h][1])


(* The request is a submission that is not valid JSON, lacks a required    *)
(* key, or has a value that is not integer-decodable.                      *)
Malformed(r) ==
    /\ r.path = "/submit"
    /\ ~r.json_ok \/ parse_share_raises(r.payload)

(* A malformed submission is answered 400 once at the parsing step: the    *)
(* verifier is not started and the ledger step is not entered.             *)
FailsFast(h) ==
    /\ pc[h] \in {"parse", "done"}
    /\ verified[h] = "none"
    /\ ~touched[h]
    /\ lock # h
    /\ ~temp_path[h]
    /\ pc[h] = "done" =>
          /\ resp[h].code = 400
          /\ sent[h] = 1
          /\ StatusOf(resp[h]) = (IF req[h].json_ok THEN "invalid share" ELSE "invalid json")

(* The response lists exactly the required keys the payload lacks. *)
NamesMissingKeys(r, payload) ==
    /\ "detail" \in DOMAIN r.body
    /\ "missing" \in DOMAIN r.body.detail
    /\ {r.body.detail.missing[i] : i \in 1..Len(r.body.detail.missing)}
          = RequiredKeys \ DOMAIN payload
    /\ Len(r.body.detail.missing) = Cardinality(RequiredKeys \ DOMAIN payload)

VerifierErrorStep(h) ==
    \/ pc[h] = "verify" /\ pc'[h] = "done"
    \/ /\ pc[h] = "prepare" /\ pc'[h] = "done"
       /\ PayloadGet(req[h].payload, "proof_path") = JNull

(* C21: a failure of the verifier command itself ends only that request,   *)
(* with an error response; the ledger is unchanged, the lock is not held   *)
(* by the request, and the other handlers and later lookups see the state  *)
(* they would have seen without it.                                        *)
C21_VerifierErrorIsLocal ==
    [][\A h \in Handlers :
         VerifierErrorStep(h)
            => /\ resp'[h].code = 500
               /\ StatusOf(resp'[h]) = "verification error"
               /\ sent'[h] = 1
               /\ ~touched'[h]
               /\ lock # h /\ lock' = lock
               /\ spent' = spent
               /\ admitted' = admitted
               /\ \A g \in Handlers \ {h} :
                     /\ pc'[g] = pc[g]
                     /\ resp'[g] = resp[g]
                     /\ previous'[g] = previous[g]
      ]_vars

(* C21 witness: a request ended with the verification error, the lock is   *)
(* free, and the next request with the same share found no entry and was   *)
(* accepted.                                                               *)
C21_Witness ==
    \E h1, h2 \in Handlers :
        /\ pc[h1] = "done"
        /\ StatusOf(resp[h1]) = "verification error"
        /\ verified[h1] = "error"
        /\ lock = NoHolder
        /\ pc[h2] = "done"
        /\ StatusOf(resp[h2]) = "accepted"
        /\ share[h2] = share[h1]
        /\ Len(admitted) = 1


(* The accepted shares of the nullifier of handler h's share. *)
FirstShares(h) ==
    {admitted[i] : i \in {j \in 1..Len(admitted) : admitted[j].nullifier = share[h].nullifier}}

(* C22: once a share is accepted for a nullifier, every verified           *)
(* submission of a share with the same ticket_index and another x is       *)
(* answered slashed, each time with the secret recomputed from the first   *)
(* share and the submitted one, and the entry remains the first share.     *)
C22_SlashedAgain ==
    /\ \A h \in Handlers :
          (LedgerStepDone(h) /\ \E f \in FirstShares(h) :
                                   f.ticket_index = share[h].ticket_index /\ f.x # share[h].x)
             => /\ Cardinality(FirstShares(h)) = 1
                /\ \A f \in FirstShares(h) :
                      /\ Produced(h, "slashed")
                      /\ FromHex(resp[h].body.recovered_identity_secret)
                            \in Intercepts(f.x, f.y, share[h].x, share[h].y)
                      /\ Cardinality(Intercepts(f.x, f.y, share[h].x, share[h].y)) = 1
                      /\ Key(h) \in DOMAIN spent
                      /\ spent[Key(h)] = EntryOf(f)
    /\ \A h1, h2 \in Handlers :
          (LedgerStepDone(h1) /\ LedgerStepDone(h2) /\ share[h1] = share[h2]
              /\ Produced(h1, "slashed"))
             => resp[h2] = resp[h1]

(* C22 witness: after (2,13) was accepted, (5,22) was submitted twice and  *)
(* both submissions were answered slashed with the secret 0x7.             *)
C22_Witness ==
    /\ nreq = 3
    /\ Len(admitted) = 1
    /\ <<admitted[1].x, admitted[1].y>> = <<2, 13>>
    /\ \A h \in Handlers :
          /\ pc[h] = "done"
          /\ <<share[h].x, share[h].y>> = <<5, 22>>
          /\ Produced(h, "slashed")
          /\ resp[h].body.recovered_identity_secret = <<"0", "x", "7">>
    /\ spent[<<"0", "x", "1">>] = <<1, 2, 13>>


(***************************************************************************)
(* do_GET (lines 189-207), served by a thread of its own next to the       *)
(* do_POST handlers.                                                       *)
(***************************************************************************)
GetThread == "get"

GetPaths == {"/healthz", "/state", "/other"}

(* The submissions sent while GET requests are served. *)
SubmissionsBesideGet ==
    { Post(("proof_path" :> ProofByPath) @@ p) : p \in SharesN1 }
    \cup { Post(("proof_b64" :> ProofB64) @@ p) : p \in SharesN2 }

post_vars == <<pc, req, share, temp_path, verified, previous, resp, sent,
               files, touched, recovered, admitted, failed>>

(* A snapshot that leaves y out of every entry. *)
active_spent_without_y(d) ==
    [k \in DOMAIN d |-> [ticket_index |-> to_felt_hex(JInt(d[k][1])),
                         x |-> to_felt_hex(JInt(d[k][2]))]]

(* Lines 195-203: the dict comprehension over spent.items(). *)
active_spent(d) ==
    [k \in DOMAIN d |-> [ticket_index |-> to_felt_hex(JInt(d[k][1])),
                         x |-> to_felt_hex(JInt(d[k][2])),
                         y |-> to_felt_hex(JInt(d[k][3]))]]

ReceiveGet(path) ==
    /\ get.pc = "idle"
    /\ nreq < MaxRequests
    /\ nreq' = nreq + 1
    /\ get' = [get EXCEPT !.pc = "route", !.path = path]
    /\ UNCHANGED <<call, demo, spent, lock>>
    /\ UNCHANGED post_vars

(* Lines 190-193 and 206: /healthz and unknown paths are answered at once; *)
(* /state goes on to the with block.                                       *)
RouteGet ==
    /\ get.pc = "route"
    /\ get' = CASE get.path = "/healthz" ->
                     [get EXCEPT !.pc = "done",
                                 !.resp = [code |-> 200, body |-> [status |-> "ok"]]]
                [] get.path = "/state" -> [get EXCEPT !.pc = "acquire"]
                [] OTHER ->
                     [get EXCEPT !.pc = "done",
                                 !.resp = [code |-> 404, body |-> [error |-> "not found"]]]
    /\ UNCHANGED <<call, demo, spent, lock, nreq>>
    /\ UNCHANGED post_vars

(* Line 194: with self.server_state.lock *)
AcquireGet ==
    /\ get.pc = "acquire"
    /\ LockFree(GetThread)
    /\ lock' = GetThread
    /\ get' = [get EXCEPT !.pc = "snapshot"]
    /\ UNCHANGED <<call, demo, spent, nreq>>
    /\ UNCHANGED post_vars

(* Lines 195-203: build the body and leave the with block. *)
SnapshotGet ==
    /\ get.pc = "snapshot"
    /\ get' = [get EXCEPT !.pc = "respond", !.snapshot = active_spent(spent)]
    /\ lock' = IF lock = GetThread THEN NoHolder ELSE lock
    /\ UNCHANGED <<call, demo, spent, nreq>>
    /\ UNCHANGED post_vars

(* Line 204: the snapshot is written after the lock was released. *)
RespondGet ==
    /\ get.pc = "respond"
    /\ get' = [get EXCEPT !.pc = "done",
                          !.resp = [code |-> 200, body |-> [active_spent |-> get.snapshot]]]
    /\ UNCHANGED <<call, demo, spent, lock, nreq>>
    /\ UNCHANGED post_vars

ReturnGet ==
    /\ get.pc = "done"
    /\ get' = NoGet
    /\ UNCHANGED <<call, demo, spent, lock, nreq>>
    /\ UNCHANGED post_vars

NextGet ==
    \/ \E path \in GetPaths : ReceiveGet(path)
    \/ RouteGet
    \/ AcquireGet
    \/ SnapshotGet
    \/ RespondGet
    \/ ReturnGet
    \/ \E h \in Handlers, r \in SubmissionsBesideGet : Receive(h, r)
    \/ \E h \in Handlers : Parse(h)
    \/ \E h \in Handlers, write_fails \in BOOLEAN : Prepare(h, write_fails)
    \/ \E h \in Handlers, launch_fails \in BOOLEAN : StartVerify(h, launch_fails)
    \/ \E h \in Handlers, ok \in BOOLEAN : FinishVerify(h, ok)
    \/ \E h \in Handlers : Acquire(h)
    \/ \E h \in Handlers : Lookup(h)
    \/ \E h \in Handlers : Adjudicate(h)
    \/ \E h \in Handlers : Release(h)
    \/ \E h \in Handlers : Return(h)

SpecGet == Init /\ [][NextGet]_vars


(* A snapshot entry is the complete rendering of a ledger entry. *)
RendersEntry(e, entry) ==
    /\ DOMAIN e = {"ticket_index", "x", "y"}
    /\ <<FromHex(e.ticket_index), FromHex(e.x), FromHex(e.y)>> = entry

(* C23: GET /state and GET /healthz never modify the ledger; the /state    *)
(* snapshot is taken while the GET thread holds the ledger lock and has    *)
(* exactly the entries of the ledger at that moment, one per nullifier key *)
(* with its ticket_index, x and y, none of them partial.                   *)
C23_SnapshotIsLedger ==
    /\ [](get.pc = "snapshot" =>
             /\ lock = GetThread
             /\ \A h \in Handlers : ~InCriticalSection(h))
    /\ [](\A k \in DOMAIN get.snapshot :
             /\ k \in DOMAIN spent
             /\ RendersEntry(get.snapshot[k], spent[k]))
    /\ []((get.pc = "done" /\ get.path = "/healthz")
             => get.resp = [code |-> 200, body |-> [status |-> "ok"]])
    /\ [][get' # get => (spent' = spent /\ admitted' = admitted)]_vars
    /\ [][(get.pc = "snapshot" /\ get'.pc = "respond")
             => /\ DOMAIN get'.snapshot = DOMAIN spent
                /\ \A k \in DOMAIN spent : RendersEntry(get'.snapshot[k], spent[k])
                /\ \A k1, k2 \in DOMAIN get'.snapshot : FromHex(k1) = FromHex(k2) => k1 = k2
      ]_vars
    /\ [][(get.pc = "respond" /\ get'.pc = "done")
             => get'.resp = [code |-> 200, body |-> [active_spent |-> get.snapshot]]]_vars

(* C23 witness: GET /state was answered with the two entries the ledger    *)
(* holds.                                                                  *)
C23_Witness ==
    /\ get.pc = "done"
    /\ get.path = "/state"
    /\ Cardinality(DOMAIN spent) = 2
    /\ DOMAIN get.resp.body.active_spent = DOMAIN spent
    /\ \A k \in DOMAIN spent : RendersEntry(get.resp.body.active_spent[k], spent[k])


(***************************************************************************)
(* scripts/v2_sequential_demo.py: main walks a chain fixture, proving and  *)
(* verifying one step after the other.                                     *)
(***************************************************************************)

(* Bound of the model: the number of entries of a chain fixture. *)
MaxChain == 3

GENESIS_REFUND_COMMITMENT_PREV == 123

REQUIRED_STEP_KEYS ==
    {"step", "ticket_index", "scope", "refund_commitment_prev", "refund_amount",
     "refund_commitment_next_expected", "server_pubkey", "signature_r", "signature_s"}

(* parse_int: an int as it is, a string through int(str(value), 0). *)
parse_int_raises(value) ==
    CASE value.t = "int" -> FALSE
      [] value.t = "str" -> IntLiteralRaises(value.s)
      [] OTHER -> TRUE

parse_int(value) == IF value.t = "int" THEN value.v ELSE IntLiteral(value.s)

to_hex(value) == hex(value)

(* A chain entry with all nine fields. *)
ChainEntry(step, prev, nxt) ==
    [step |-> step, ticket_index |-> JInt(1), scope |-> JInt(1),
     refund_commitment_prev |-> prev, refund_amount |-> JInt(1),
     refund_commitment_next_expected |-> nxt,
     server_pubkey |-> JInt(1), signature_r |-> JInt(1), signature_s |-> JInt(1)]

Without(e, key) == [k \in DOMAIN e \ {key} |-> e[k]]

Commitments == {JInt(GENESIS_REFUND_COMMITMENT_PREV), JInt(GENESIS_REFUND_COMMITMENT_PREV + 1)}

(* The entries a fixture may hold at index i: well-formed ones, one with   *)
(* string literals, one with the step of the next index, one without       *)
(* signature_s, one with a zero refund_commitment_prev.                    *)
EntryChoices(i) ==
    {ChainEntry(JInt(i), p, n) : p, n \in Commitments}
    \cup {ChainEntry(JStr(hex(i)), JStr(<<"0", "x", "7", "b">>), JStr(<<"1", "2", "4">>)),
          ChainEntry(JInt(i + 1), JInt(GENESIS_REFUND_COMMITMENT_PREV),
                     JInt(GENESIS_REFUND_COMMITMENT_PREV + 1)),
          Without(ChainEntry(JInt(i), JInt(GENESIS_REFUND_COMMITMENT_PREV),
                             JInt(GENESIS_REFUND_COMMITMENT_PREV + 1)), "signature_s"),
          ChainEntry(JInt(i), JInt(0), JInt(GENESIS_REFUND_COMMITMENT_PREV + 1))}

Chains ==
    UNION {{c \in [1..n -> UNION {EntryChoices(i) : i \in 0..(n - 1)}] :
               \A i \in 1..n : c[i] \in EntryChoices(i - 1)} : n \in 0..MaxChain}

(* The values of --steps. *)
StepsArgs == 0..(MaxChain + 1)

(* How a subprocess ends: exit 0, exit nonzero, TimeoutExpired; for prove  *)
(* also exit 0 with no "Saving proof to:" line in the output.              *)
CmdOutcomes == {"ok", "failed", "timeout"}

ProveOutcomes == CmdOutcomes \cup {"no_path"}

NoReport == <<>>

Raise(exception) == [demo EXCEPT !.pc = "raised", !.exc = exception]

Ran(cmd, step, outcome) ==
    [demo EXCEPT !.cmds = Append(@, [cmd |-> cmd, step |-> step, outcome |-> outcome])]

demo_frame == <<call, get, spent, lock, nreq, pc, req, share, temp_path, verified, previous,
                resp, sent, files, touched, recovered, admitted, failed>>

(* Lines 151-162: the arguments and the two files are read. *)
DemoStart(chain, steps, skip_build, skip_verify) ==
    /\ demo' = [pc |-> "args", chain |-> chain, steps |-> steps,
                skip_build |-> skip_build, skip_verify |-> skip_verify,
                local_state |-> -1, i |-> 0, cmds |-> <<>>, runs |-> <<>>,
                exc |-> "none", report |-> NoReport]
    /\ UNCHANGED demo_frame

(* Lines 163-166: --steps must be within 1..len(chain). *)
DemoArgs ==
    /\ demo.pc = "args"
    /\ demo' = IF demo.steps < 1 \/ demo.steps > Len(demo.chain)
               THEN Raise("ValueError")
               ELSE [demo EXCEPT !.pc = "build"]
    /\ UNCHANGED demo_frame

(* Lines 172-173 and run (57-80): the build command, unless --skip-build. *)
DemoBuild(outcome) ==
    /\ demo.pc = "build"
    /\ IF demo.skip_build
       THEN /\ outcome = "ok"
            /\ demo' = [demo EXCEPT !.pc = "validate"]
       ELSE demo' = IF outcome = "ok"
                    THEN [Ran("build", -1, outcome) EXCEPT !.pc = "validate"]
                    ELSE [Ran("build", -1, outcome) EXCEPT !.pc = "raised",
                                                           !.exc = "RuntimeError"]
    /\ UNCHANGED demo_frame


(* A validation that looks at the first --steps entries only. *)
ValidatedEntriesFirstSteps(chain, steps) == SubSeq(chain, 1, steps)

(* Line 186: for i, s in enumerate(chain) *)
ValidatedEntries(chain, steps) == chain

(* Lines 186-197: an entry lacks a required field, or its step is not its  *)
(* index.                                                                  *)
entries_raise(entries) ==
    \E i \in 1..Len(entries) :
        \/ REQUIRED_STEP_KEYS \ DOMAIN entries[i] # {}
        \/ parse_int_raises(entries[i].step)
        \/ parse_int(entries[i].step) # i - 1

(* Lines 199-206: the genesis refund_commitment_prev is zero or not 0x7B. *)
genesis_raises(chain) ==
    \/ parse_int_raises(chain[1].refund_commitment_prev)
    \/ parse_int(chain[1].refund_commitment_prev) = 0
    \/ parse_int(chain[1].refund_commitment_prev) # GENESIS_REFUND_COMMITMENT_PREV

(* Lines 175-207: validate the fixture, then local_state is the genesis. *)
DemoValidate ==
    /\ demo.pc = "validate"
    /\ demo' = IF entries_raise(ValidatedEntries(demo.chain, demo.steps))
               THEN Raise("ValueError")
               ELSE IF genesis_raises(demo.chain)
               THEN Raise("ValueError")
               ELSE [demo EXCEPT !.pc = "loop", !.i = 1,
                                 !.local_state = parse_int(demo.chain[1].refund_commitment_prev)]
    /\ UNCHANGED demo_frame

(* A loop that proves whatever the step's refund_commitment_prev is. *)
StateMatchesAlways(prev, local_state) == TRUE

(* Line 212: if prev != local_state: raise *)
StateMatches(prev, local_state) == prev = local_state

(* Lines 243-253: the step is done; local_state becomes its next_expected. *)
Advance(d) ==
    LET step == d.chain[d.i]
        nxt == parse_int(step.refund_commitment_next_expected)
    IN [d EXCEPT !.local_state = nxt,
                 !.runs = Append(@, [step |-> step.step, state_next |-> to_hex(nxt)]),
                 !.i = @ + 1,
                 !.pc = IF d.i + 1 > d.steps THEN "report" ELSE "loop"]

(* Lines 209-233: the state check, the prove command, parse_proof_path. *)
DemoProve(outcome) ==
    /\ demo.pc = "loop"
    /\ LET prev == parse_int(demo.chain[demo.i].refund_commitment_prev) IN
       IF ~StateMatches(prev, demo.local_state)
       THEN /\ outcome = "ok"
            /\ demo' = Raise("RuntimeError")
       ELSE LET ran == Ran("prove", demo.i - 1, outcome) IN
            demo' = CASE outcome = "ok" ->
                            IF demo.skip_verify THEN Advance(ran)
                            ELSE [ran EXCEPT !.pc = "verify"]
                      [] outcome = "no_path" ->
                            [ran EXCEPT !.pc = "raised", !.exc = "ValueError"]
                      [] OTHER ->
                            [ran EXCEPT !.pc = "raised", !.exc = "RuntimeError"]
    /\ UNCHANGED demo_frame

(* Lines 235-253: the verify command, then the step is recorded. *)
DemoVerify(outcome) ==
    /\ demo.pc = "verify"
    /\ LET ran == Ran("verify", demo.i - 1, outcome) IN
       demo' = IF outcome = "ok" THEN Advance(ran)
               ELSE [ran EXCEPT !.pc = "raised", !.exc = "RuntimeError"]
    /\ UNCHANGED demo_frame

(* Lines 258-279: the report is printed. *)
DemoReport ==
    /\ demo.pc = "report"
    /\ demo' = [demo EXCEPT
                  !.pc = "exit",
                  !.report =
                     [steps_requested |-> demo.steps,
                      steps_executed |-> Len(demo.runs),
                      final_state |-> to_hex(demo.local_state),
                      stale_replay_rejected |->
                         parse_int(demo.chain[1].refund_commitment_prev) # demo.local_state,
                      branch_attempt_rejected |->
                         IF Len(demo.chain) > 1 /\ demo.steps >= 2
                         THEN JStr(IF parse_int(demo.chain[2].refund_commitment_prev)
                                        # demo.local_state
                                   THEN <<"t">> ELSE <<"f">>)
                         ELSE JNull,
                      runs |-> demo.runs]]
    /\ UNCHANGED demo_frame

NextDemo ==
    \/ /\ demo.pc = "idle"
       /\ \E chain \in Chains, steps \in StepsArgs, skip_build, skip_verify \in BOOLEAN :
             DemoStart(chain, steps, skip_build, skip_verify)
    \/ DemoArgs
    \/ \E outcome \in CmdOutcomes : DemoBuild(outcome)
    \/ DemoValidate
    \/ \E outcome \in ProveOutcomes : DemoProve(outcome)
    \/ \E outcome \in CmdOutcomes : DemoVerify(outcome)
    \/ DemoReport

SpecDemo == Init /\ [][NextDemo]_vars


(* The fixture breaks the schema of the module docstring: an entry lacks   *)
(* one of the nine fields, an entry's step is not its index, or entry 0    *)
(* does not start from 0x7B.                                               *)
FixtureInvalid(chain) ==
    \/ \E i \in 1..Len(chain) :
          \/ REQUIRED_STEP_KEYS \ DOMAIN chain[i] # {}
          \/ parse_int(chain[i].step) # i - 1
    \/ /\ Len(chain) >= 1
       /\ "refund_commitment_prev" \in DOMAIN chain[1]
       /\ parse_int(chain[1].refund_commitment_prev) # 123

(* The build command failed: main raised from run before the validation. *)
BuildFailed ==
    /\ Len(demo.cmds) = 1
    /\ demo.cmds[1].cmd = "build"
    /\ demo.cmds[1].outcome # "ok"

(* C24: the demo validates every entry of the fixture, not only the first  *)
(* --steps: when an entry lacks a required field, entry i has a step other *)
(* than i, or entry 0 does not start from 0x7B, main raises ValueError     *)
(* before any prove or verify command is run, and prints no report.        *)
C24_WholeFixtureValidated ==
    (demo.pc # "idle" /\ FixtureInvalid(demo.chain)) =>
       /\ \A k \in 1..Len(demo.cmds) : demo.cmds[k].cmd = "build"
       /\ demo.report = NoReport
       /\ demo.pc \in {"args", "build", "validate", "raised"}
       /\ (demo.pc = "raised" /\ ~BuildFailed) => demo.exc = "ValueError"
       /\ (demo.pc = "raised" /\ BuildFailed) => demo.exc = "RuntimeError"

(* C24 witness: --steps 1 on a fixture of three entries whose third lacks  *)
(* signature_s: after the build main raised ValueError, nothing proven.    *)
C24_Witness ==
    /\ demo.pc = "raised"
    /\ demo.exc = "ValueError"
    /\ demo.steps = 1
    /\ Len(demo.chain) = 3
    /\ ~FixtureInvalid(SubSeq(demo.chain, 1, 2))
    /\ "signature_s" \notin DOMAIN demo.chain[3]
    /\ Len(demo.cmds) = 1
    /\ demo.cmds[1] = [cmd |-> "build", step |-> -1, outcome |-> "ok"]

Last(q) == q[Len(q)]

(* The commands of a kind that ended with exit 0 for loop step k. *)
Succeeded(d, cmd, k) ==
    \E j \in 1..Len(d.cmds) : d.cmds[j] = [cmd |-> cmd, step |-> k, outcome |-> "ok"]

(* C28: a prove command is run for a step only if the step's               *)
(* refund_commitment_prev is the local state, which starts as the genesis  *)
(* value and becomes the step's next_expected only after its prove and,    *)
(* unless --skip-verify, verify command succeeded; after a mismatch or a   *)
(* failed or timed-out command main has raised, runs no further command    *)
(* and prints no report; a printed report has steps_executed equal to      *)
(* steps_requested and final_state the last step's next_expected.          *)
C28_SequentialState ==
    /\ [](demo.pc \notin {"idle", "args", "build", "validate"} =>
            /\ \A j \in 1..(Len(demo.cmds) - 1) : demo.cmds[j].outcome = "ok"
            /\ demo.pc = "raised" => demo.report = NoReport
            /\ demo.report # NoReport =>
                  /\ demo.report.steps_executed = demo.report.steps_requested
                  /\ demo.report.steps_requested = demo.steps
                  /\ demo.report.final_state
                        = hex(parse_int(demo.chain[demo.steps].refund_commitment_next_expected))
                  /\ \A j \in 1..Len(demo.cmds) : demo.cmds[j].outcome = "ok"
                  /\ \A k \in 0..(demo.steps - 1) : Succeeded(demo, "prove", k))
    /\ [][(demo.pc = "validate" /\ demo'.pc = "loop")
             => demo'.local_state = 123]_vars
    /\ [][(demo.pc = "loop" /\ demo'.cmds # demo.cmds)
             => /\ Last(demo'.cmds).cmd = "prove"
                /\ Last(demo'.cmds).step = demo.i - 1
                /\ parse_int(demo.chain[demo.i].refund_commitment_prev) = demo.local_state
      ]_vars
    /\ [][(demo.pc \in {"loop", "verify"} /\ demo'.local_state # demo.local_state)
             => /\ demo'.local_state
                      = parse_int(demo.chain[demo.i].refund_commitment_next_expected)
                /\ Succeeded(demo', "prove", demo.i - 1)
                /\ demo.skip_verify \/ Succeeded(demo', "verify", demo.i - 1)
      ]_vars
    /\ [][(demo.pc \in {"loop", "verify"} /\ demo'.pc = "raised")
             => /\ demo'.local_state = demo.local_state
                /\ demo'.runs = demo.runs
                /\ demo'.report = NoReport
      ]_vars
    /\ [][demo.pc = "raised" => demo' = demo]_vars

(* C28 witness: two steps 0x7b -> 0x7c -> 0x7b proven and verified after   *)
(* the build, and the report printed.                                      *)
C28_Witness ==
    /\ demo.pc = "exit"
    /\ demo.steps = 2
    /\ ~demo.skip_verify /\ ~demo.skip_build
    /\ Len(demo.cmds) = 5
    /\ demo.chain[1].refund_commitment_next_expected = JInt(124)
    /\ demo.chain[2].refund_commitment_prev = JInt(124)
    /\ demo.report.steps_executed = 2
    /\ demo.report.final_state = <<"0", "x", "7", "b">>


(* C25: in the submit handler recover_identity_secret is called only with  *)
(* a stored x and a submitted x that are both normalized and unequal, so   *)
(* neither the duplicate evaluation point nor the inverse of zero is       *)
(* reachable: the call never raises.                                       *)
C25_RecoveryNeverRaises ==
    \A h \in Handlers :
        /\ (pc[h] = "adjudicate" /\ Outcome(share[h], previous[h]) = "slashed")
              => LET args == SlashArgs(share[h], previous[h]) IN
                 /\ args[1].x \in 0..(CAIRO_FIELD_PRIME - 1)
                 /\ args[2].x \in 0..(CAIRO_FIELD_PRIME - 1)
                 /\ args[1].x # args[2].x
                 /\ ~field_inv_raises(JInt(args[2].x - args[1].x))
                 /\ ~slash_payload_raises(args[1], args[2])
        /\ (LedgerStepDone(h) /\ recovered[h])
              => /\ sent[h] = 1
                 /\ Produced(h, "slashed")
                 /\ "recovered_identity_secret" \in DOMAIN resp[h].body

(* C25 witness: after (2,13) was stored, x = 5 was slashed with a secret   *)
(* and x = 2 + P, congruent to the stored x, was taken for a replay.       *)
C25_Witness ==
    \E h1, h2 \in Handlers :
        /\ pc[h1] = "done" /\ recovered[h1]
        /\ Produced(h1, "slashed")
        /\ previous[h1][2] = 2 /\ share[h1].x = 5
        /\ pc[h2] = "done" /\ touched[h2]
        /\ StatusOf(resp[h2]) = "replay_same_share"
        /\ req[h2].payload["x"] = JInt(2 + CAIRO_FIELD_PRIME)
        /\ previous[h2][2] = 2


(***************************************************************************)
(* The defensive checks of rln_math.py on arguments outside [0, P).        *)
(***************************************************************************)

(* The y and a0 the checks are called with: zero, a field element, and an  *)
(* integer above the prime.                                                *)
SomeValues == {0, 7, CAIRO_FIELD_PRIME + 3}

RecoverUnreduced(x1, y1, x2, enc, y2) ==
    /\ LET raises == recover_identity_secret_raises(JInt(x1), JInt(y1), Encode(x2, enc), JInt(y2))
       IN call' = [fn |-> "recover_unreduced", x1 |-> x1, x2 |-> x2, enc |-> enc,
                   y1 |-> y1, y2 |-> y2,
                   raises |-> raises,
                   value |-> IF raises THEN -1
                             ELSE recover_identity_secret(JInt(x1), JInt(y1),
                                                          Encode(x2, enc), JInt(y2))]
    /\ UNCHANGED server_vars

DeriveA1(a0, x, enc, y) ==
    /\ LET raises == derive_a1_raises(JInt(a0), Encode(x, enc), JInt(y))
       IN call' = [fn |-> "derive_a1", a0 |-> a0, x |-> x, enc |-> enc, y |-> y,
                   raises |-> raises,
                   value |-> IF raises THEN -1
                             ELSE derive_a1(JInt(a0), Encode(x, enc), JInt(y))]
    /\ UNCHANGED server_vars

NextChecks ==
    /\ call = NoCall
    /\ \/ \E n \in IntArgs, enc \in Encodings : Invert(n, enc)
       \/ \E a0, y \in SomeValues, x \in IntArgs, enc \in Encodings : DeriveA1(a0, x, enc, y)
       \/ \E x1, x2 \in IntArgs, enc \in Encodings, y1, y2 \in SomeValues :
             RecoverUnreduced(x1, y1, x2, enc, y2)

SpecChecks == Init /\ [][NextChecks]_vars

(* C26: recover_identity_secret fails exactly when x1 and x2 are congruent *)
(* modulo P, field_inv exactly when its argument is congruent to 0, and    *)
(* derive_a1 exactly when x is congruent to 0, also for arguments outside  *)
(* [0, P); in every other case the function returns a value in [0, P).     *)
C26_ChecksOnNormalizedValues ==
    /\ call.fn = "recover_unreduced" =>
          /\ call.raises <=> (call.x1 - call.x2) % CAIRO_FIELD_PRIME = 0
          /\ ~call.raises => call.value \in 0..(CAIRO_FIELD_PRIME - 1)
    /\ call.fn = "field_inv" =>
          /\ call.raises <=> call.n % CAIRO_FIELD_PRIME = 0
          /\ ~call.raises => call.out \in 0..(CAIRO_FIELD_PRIME - 1)
    /\ call.fn = "derive_a1" =>
          /\ call.raises <=> call.x % CAIRO_FIELD_PRIME = 0
          /\ ~call.raises => call.value \in 0..(CAIRO_FIELD_PRIME - 1)

(* C26 witness: recover_identity_secret on x1 = 2 and x2 = "0x19", which   *)
(* is 2 + P, raises.                                                       *)
C26_Witness ==
    /\ call.fn = "recover_unreduced"
    /\ call.x1 = 2
    /\ call.x2 = 2 + CAIRO_FIELD_PRIME
    /\ call.enc = "hex"
    /\ call.raises


(* The integer a JSON value of a request denotes, before any reduction. *)
RawInt(value) == IF value.t = "int" THEN value.v ELSE IntLiteral(value.s)

(* Handler h holds a parsed share of its request. *)
Parsed(h) == pc[h] \notin {"idle", "parse"} /\ share[h] # NoShare

Congruent(a, b) == (a - b) % CAIRO_FIELD_PRIME = 0

(* C27: every ledger key is the canonical lowercase 0x-hex of a nullifier  *)
(* in [0, P) and every stored ticket_index, x, y is in [0, P); the parsed  *)
(* share is the request's values reduced modulo P, so submissions whose    *)
(* encodings differ but are congruent modulo P use the same key and are    *)
(* compared as equal to the stored entry.                                  *)
C27_ReducedValuesOnly ==
    /\ \A k \in DOMAIN spent :
          /\ FromHex(k) \in 0..(CAIRO_FIELD_PRIME - 1)
          /\ k = <<"0", "x">> \o HexDigits(FromHex(k))
          /\ \A j \in 1..Len(k) : \E c \in 1..16 : HexChars[c] = k[j] \/ (j = 2 /\ k[j] = "x")
          /\ \A j \in 1..3 : spent[k][j] \in 0..(CAIRO_FIELD_PRIME - 1)
    /\ \A h \in Handlers :
          Parsed(h) =>
             /\ \A f \in RequiredKeys :
                   /\ share[h][f] \in 0..(CAIRO_FIELD_PRIME - 1)
                   /\ Congruent(share[h][f], RawInt(req[h].payload[f]))
    /\ \A h1, h2 \in Handlers :
          (Parsed(h1) /\ Parsed(h2)
              /\ Congruent(RawInt(req[h1].payload["nullifier"]),
                           RawInt(req[h2].payload["nullifier"])))
             => Key(h1) = Key(h2)
    /\ \A h \in Handlers :
          (LedgerStepDone(h) /\ previous[h] # None) =>
             LET p == req[h].payload IN
             /\ previous[h] = spent[Key(h)]
             /\ (/\ Congruent(RawInt(p["ticket_index"]), previous[h][1])
                 /\ Congruent(RawInt(p["x"]), previous[h][2])
                 /\ Congruent(RawInt(p["y"]), previous[h][3]))
                   => StatusOf(resp[h]) = "replay_same_share"
             /\ ~Congruent(RawInt(p["ticket_index"]), previous[h][1])
                   => StatusOf(resp[h]) = "nullifier replay with different ticket_index"

(* C27 witness: after {1, 1, 2, 13} was stored under 0x1, the submission   *)
(* {"0x18", 1 - P, 2 + P, "13"} found that entry and was taken for a       *)
(* replay of the same share.                                               *)
C27_Witness ==
    \E h \in Handlers :
        /\ pc[h] = "done" /\ touched[h]
        /\ req[h].payload["nullifier"] = JStr(<<"0", "x", "1", "8">>)
        /\ req[h].payload["ticket_index"] = JInt(1 - CAIRO_FIELD_PRIME)
        /\ req[h].payload["x"] = JInt(2 + CAIRO_FIELD_PRIME)
        /\ req[h].payload["y"] = JStr(<<"1", "3">>)
        /\ Len(admitted) = 1
        /\ DOMAIN spent = {<<"0", "x", "1">>}
        /\ previous[h] = <<1, 2, 13>>
        /\ StatusOf(resp[h]) = "replay_same_share"


(***************************************************************************)
(* scripts/slash.py: main on two parsed shares, without                    *)
(* --expected-identity-secret.                                             *)
(***************************************************************************)
SlashShares ==
    {Share(n, t, x, y) : n \in {1, 2}, t \in {1, 2}, x \in {0, 2, 5}, y \in {13, 22}}

(* Lines 37-63: the three checks, the recovery, derive_a1 on the first     *)
(* share, and the printed result.                                          *)
slash_main(s1, s2) ==
    IF s1.nullifier # s2.nullifier
    THEN [exit |-> "SystemExit", message |-> "Error: nullifiers do not match."]
    ELSE IF s1.ticket_index # s2.ticket_index
    THEN [exit |-> "SystemExit", message |-> "Error: ticket_index does not match."]
    ELSE IF s1.x = s2.x
    THEN [exit |-> "SystemExit",
          message |-> "Error: x values must be different to recover secret."]
    ELSE IF recover_identity_secret_raises(JInt(s1.x), JInt(s1.y), JInt(s2.x), JInt(s2.y))
    THEN [exit |-> "ValueError", message |-> "x1 and x2 are equal"]
    ELSE LET identity_secret ==
                 recover_identity_secret(JInt(s1.x), JInt(s1.y), JInt(s2.x), JInt(s2.y))
         IN IF derive_a1_raises(JInt(identity_secret), JInt(s1.x), JInt(s1.y))
            THEN [exit |-> "ValueError", message |-> "cannot derive a1 when x == 0"]
            ELSE [exit |-> "printed",
                  result |->
                     [nullifier |-> to_felt_hex(JInt(s1.nullifier)),
                      ticket_index |-> to_felt_hex(JInt(s1.ticket_index)),
                      share1 |-> [x |-> to_felt_hex(JInt(s1.x)), y |-> to_felt_hex(JInt(s1.y))],
                      share2 |-> [x |-> to_felt_hex(JInt(s2.x)), y |-> to_felt_hex(JInt(s2.y))],
                      recovered_identity_secret |-> to_felt_hex(JInt(identity_secret)),
                      derived_a1 |->
                         to_felt_hex(JInt(derive_a1(JInt(identity_secret),
                                                    JInt(s1.x), JInt(s1.y)))),
                      slash |-> TRUE]]

SlashMain(s1, s2) ==
    /\ call' = [fn |-> "slash_main", s1 |-> s1, s2 |-> s2, out |-> slash_main(s1, s2)]
    /\ UNCHANGED server_vars

NextSlash ==
    /\ call = NoCall
    /\ \E s1, s2 \in SlashShares : SlashMain(s1, s2)

SpecSlash == Init /\ [][NextSlash]_vars

(* The two shares have one nullifier, one ticket_index and distinct x. *)
Slashable(s1, s2) ==
    /\ s1.nullifier = s2.nullifier
    /\ s1.ticket_index = s2.ticket_index
    /\ s1.x # s2.x

(* C29: slash.py prints the evidence, with slash true and the recovered    *)
(* secret, for every two shares of one nullifier and ticket_index with     *)
(* distinct x, also when the first share's x is 0, and exits with an error *)
(* and no evidence exactly when the nullifiers differ, the ticket_index    *)
(* differs or the x are equal.                                             *)
C29_SlashCliCompletes ==
    call.fn = "slash_main" =>
       /\ (call.out.exit = "printed") <=> Slashable(call.s1, call.s2)
       /\ call.out.exit = "printed" =>
             /\ call.out.result.slash
             /\ FromHex(call.out.result.recovered_identity_secret)
                   \in Intercepts(call.s1.x, call.s1.y, call.s2.x, call.s2.y)
       /\ call.out.exit # "printed" => call.out.exit = "SystemExit"


(* The positions of a handler after the try block of lines 113-140. *)
PastVerification == {"acquire", "lookup", "adjudicate", "release", "done"}

(* C30: every temporary proof file made for a proof_b64 submission is      *)
(* deleted before its handler goes on to the ledger step or returns, on    *)
(* every path: verification passed, verification failed, an exception     *)
(* while the file is written or the verifier is run.                       *)
C30_NoTempFileOutlivesRequest ==
    \A h \in Handlers : pc[h] \in PastVerification => h \notin files

====
